---- MODULE Spec2Model ----
(***************************************************************************)
(* State-machine model of the simulation core of src/src/main.cpp          *)
(* (Game, Entity, Rect, InputSystem and loop()).                           *)
(*                                                                         *)
(* Numbers.  The source keeps positions, velocities and sizes in floats.   *)
(* Here every length is an integer number of tenths of a unit (P(n) is n   *)
(* units), which represents 1.5, 3.0 and 0.8 exactly.  The two places      *)
(* where the source takes a square root (enemy steering, joystick          *)
(* clipping) and the particle directions are rounded toward zero to a      *)
(* tenth.  Entity.color is left out: nothing but drawing reads it.         *)
(*                                                                         *)
(* Time.  millis() is the variable now.  It advances between frames and    *)
(* is read as one value by all the calls inside one frame.                 *)
(*                                                                         *)
(* Control.  One pass of loop() that runs a frame is the action Frame*;    *)
(* in PLAYING the frame continues through the four loops of                *)
(* checkCollisions and the game-over test, one action each (the first      *)
(* loop one action per bullet), in the order pc forces.                    *)
(***************************************************************************)
EXTENDS Integers, Sequences, FiniteSets, TLC

VARIABLES game, input, now, lastFrame, frames, pc, ci, env, probe

vars == <<game, input, now, lastFrame, frames, pc, ci, env, probe>>

(***************************************************************************)
(* Configuration (#defines) and the bounds of the model.                   *)
(***************************************************************************)
SCREEN_WIDTH == 480
\* The source has SCREEN_HEIGHT 320; the model runs the same code on a
\* shorter field so that entities meet within a few frames.
SCREEN_HEIGHT == 72
GAME_FPS == 30
FRAME_TIME == 1000 \div GAME_FPS
TOUCH_THRESHOLD == 10
JOYSTICK_RADIUS == 60
JOYSTICK_CENTER_X == 70
JOYSTICK_CENTER_Y == SCREEN_HEIGHT - 70

\* Pool capacities of the model (the source has 20, 30, 40, 5, 10, 50).
MAX_ENEMIES == 2
MAX_PLAYER_BULLETS == 3
MAX_ENEMY_BULLETS == 3
MAX_POWERUPS == 1
MAX_EXPLOSIONS == 1
MAX_PARTICLES == 9

\* Number of frames a behaviour runs, per environment (see Environments).
PowerupFrames == 10
AssaultFrames == 9
SteerFrames == 4
ClockFrames == 16
FallFrames == 38
RescueFrames == 11
BasicFrames == 5

\* Tenths of a unit.
P(n) == n * 10

Abs(n) == IF n < 0 THEN -n ELSE n
Sgn(n) == IF n < 0 THEN -1 ELSE IF n > 0 THEN 1 ELSE 0
Min(a, b) == IF a < b THEN a ELSE b
\* C integer / float-to-tenth rounding: toward zero.
TruncDiv(a, b) == Sgn(a) * Sgn(b) * (Abs(a) \div Abs(b))

Vec2(x, y) == [x |-> x, y |-> y]
VecAdd(a, b) == Vec2(a.x + b.x, a.y + b.y)

(***************************************************************************)
(* Rect and Entity                                                         *)
(***************************************************************************)
Rect(x, y, w, h) == [x |-> x, y |-> y, w |-> w, h |-> h]

\* Faulty variant of intersects: boxes that share an edge or a corner count.
intersectsClosed(a, r) ==
    /\ a.x <= r.x + r.w
    /\ a.x + a.w >= r.x
    /\ a.y <= r.y + r.h
    /\ a.y + a.h >= r.y

intersects(a, r) ==
    /\ a.x < r.x + r.w
    /\ a.x + a.w > r.x
    /\ a.y < r.y + r.h
    /\ a.y + a.h > r.y

getRect(e) == Rect(e.pos.x - e.width \div 2, e.pos.y - e.height \div 2,
                   e.width, e.height)

EntityTypes == {"PLAYER", "ENEMY_BASIC", "ENEMY_FAST", "ENEMY_TANK",
                "BULLET_PLAYER", "BULLET_ENEMY", "POWERUP_WEAPON",
                "POWERUP_HEALTH", "EXPLOSION", "PARTICLE"}

\* Entity::init
EntityInit(t, p, v, w, h, hp, time) ==
    [active |-> TRUE, type |-> t, pos |-> p, vel |-> v, width |-> w,
     height |-> h, health |-> hp, animFrame |-> 0, lastAnimTime |-> time]

\* Entity::deactivate
deactivate(e) == [e EXCEPT !.active = FALSE]

\* A slot of a global (zero-initialised) Game before any use.
ZeroEntity ==
    [active |-> FALSE, type |-> "PLAYER", pos |-> Vec2(0, 0),
     vel |-> Vec2(0, 0), width |-> 0, height |-> 0, health |-> 0,
     animFrame |-> 0, lastAnimTime |-> 0]

ActiveSet(pool) == {i \in DOMAIN pool : pool[i].active}
ActiveCount(pool) == Cardinality(ActiveSet(pool))
FreeCount(pool) == Len(pool) - ActiveCount(pool)
AllInactive(pool) == [i \in DOMAIN pool |-> [pool[i] EXCEPT !.active = FALSE]]

\* Faulty variant of FirstFree: the scan runs from the top of the pool.
FirstFreeLast(pool) ==
    IF \E i \in DOMAIN pool : ~pool[i].active
    THEN CHOOSE i \in DOMAIN pool :
            ~pool[i].active /\ \A j \in DOMAIN pool : j > i => pool[j].active
    ELSE 0

\* The index the scan "for i ... if (!pool[i].active) { ...; break; }" stops
\* at, 0 when it runs to the end.
FirstFree(pool) ==
    IF \E i \in DOMAIN pool : ~pool[i].active
    THEN CHOOSE i \in DOMAIN pool :
            ~pool[i].active /\ \A j \in DOMAIN pool : j < i => pool[j].active
    ELSE 0

\* Faulty variant of Claim: a full pool grows by one slot.
ClaimGrowing(pool, e) ==
    IF FirstFree(pool) = 0 THEN Append(pool, e)
    ELSE [pool EXCEPT ![FirstFree(pool)] = e]

\* The scan with its body: slot FirstFree gets e, a full pool is left alone.
Claim(pool, e) ==
    IF FirstFree(pool) = 0 THEN pool ELSE [pool EXCEPT ![FirstFree(pool)] = e]

\* Faulty variant of GameInit: the particle pool is not cleared.
GameInitKeepingParticles(g, t) ==
    [g EXCEPT
       !.state = "TITLE", !.score = 0, !.lives = 3, !.wave = 1, !.scrollY = 0,
       !.playerWeaponLevel = 1, !.lastEnemySpawn = 0, !.lastPlayerShot = 0,
       !.player = EntityInit("PLAYER",
                             Vec2(P(SCREEN_WIDTH \div 2), P(SCREEN_HEIGHT - 60)),
                             Vec2(0, 0), P(24), P(24), 100, t),
       !.enemies = AllInactive(g.enemies),
       !.playerBullets = AllInactive(g.playerBullets),
       !.enemyBullets = AllInactive(g.enemyBullets),
       !.powerups = AllInactive(g.powerups),
       !.explosions = AllInactive(g.explosions)]

(***************************************************************************)
(* Game::init, Game::startGame                                             *)
(***************************************************************************)
GameInit(g, t) ==
    [g EXCEPT
       !.state = "TITLE", !.score = 0, !.lives = 3, !.wave = 1, !.scrollY = 0,
       !.playerWeaponLevel = 1, !.lastEnemySpawn = 0, !.lastPlayerShot = 0,
       !.player = EntityInit("PLAYER",
                             Vec2(P(SCREEN_WIDTH \div 2), P(SCREEN_HEIGHT - 60)),
                             Vec2(0, 0), P(24), P(24), 100, t),
       !.enemies = AllInactive(g.enemies),
       !.playerBullets = AllInactive(g.playerBullets),
       !.enemyBullets = AllInactive(g.enemyBullets),
       !.powerups = AllInactive(g.powerups),
       !.explosions = AllInactive(g.explosions),
       !.particles = AllInactive(g.particles)]

startGame(g, t) == [GameInit(g, t) EXCEPT !.state = "PLAYING"]

\* The global "Game game;" before setup(): static storage, all zero.
ZeroGame ==
    [state |-> "TITLE", score |-> 0, lives |-> 0, wave |-> 0, scrollY |-> 0,
     playerWeaponLevel |-> 0, lastEnemySpawn |-> 0, lastPlayerShot |-> 0,
     player |-> ZeroEntity,
     enemies |-> [i \in 1..MAX_ENEMIES |-> ZeroEntity],
     playerBullets |-> [i \in 1..MAX_PLAYER_BULLETS |-> ZeroEntity],
     enemyBullets |-> [i \in 1..MAX_ENEMY_BULLETS |-> ZeroEntity],
     powerups |-> [i \in 1..MAX_POWERUPS |-> ZeroEntity],
     explosions |-> [i \in 1..MAX_EXPLOSIONS |-> ZeroEntity],
     particles |-> [i \in 1..MAX_PARTICLES |-> ZeroEntity]]

(***************************************************************************)
(* Spawning.  Each operator takes the Game record and returns it changed.  *)
(***************************************************************************)
\* Faulty variant of EnemyHp: a basic enemy takes two hits.
EnemyHpTough(type) == IF type = "ENEMY_FAST" THEN 5
                      ELSE IF type = "ENEMY_TANK" THEN 30 ELSE 20

EnemyHp(type) == IF type = "ENEMY_FAST" THEN 5
                 ELSE IF type = "ENEMY_TANK" THEN 30 ELSE 10
EnemySize(type) == IF type = "ENEMY_FAST" THEN P(16)
                   ELSE IF type = "ENEMY_TANK" THEN P(28) ELSE P(20)

spawnEnemy(g, type, pos, vel, t) ==
    [g EXCEPT !.enemies =
        Claim(@, EntityInit(type, pos, vel, EnemySize(type), EnemySize(type),
                            EnemyHp(type), t))]

spawnPlayerBullet(g, pos, vel, t) ==
    [g EXCEPT !.playerBullets =
        Claim(@, EntityInit("BULLET_PLAYER", pos, vel, P(4), P(8), 1, t))]

spawnEnemyBullet(g, pos, vel, t) ==
    [g EXCEPT !.enemyBullets =
        Claim(@, EntityInit("BULLET_ENEMY", pos, vel, P(4), P(8), 1, t))]

spawnParticle(g, pos, vel, t) ==
    [g EXCEPT !.particles =
        Claim(@, EntityInit("PARTICLE", pos, vel, P(2), P(2), 10, t))]

\* Vec2(cos(angle) * 2, sin(angle) * 2) for angle = (j / 8.0) * 2 * PI.
ParticleVel(j) ==
    CASE j = 0 -> Vec2(20, 0)    [] j = 1 -> Vec2(14, 14)
      [] j = 2 -> Vec2(0, 20)    [] j = 3 -> Vec2(-14, 14)
      [] j = 4 -> Vec2(-20, 0)   [] j = 5 -> Vec2(-14, -14)
      [] j = 6 -> Vec2(0, -20)   [] OTHER -> Vec2(14, -14)

RECURSIVE spawnParticlesFrom(_, _, _, _)
spawnParticlesFrom(g, pos, j, t) ==
    IF j >= 8 THEN g
    ELSE spawnParticlesFrom(spawnParticle(g, pos, ParticleVel(j), t),
                            pos, j + 1, t)

\* Faulty variant of spawnExplosion: the explosion without its particles.
spawnExplosionOnly(g, pos, size, t) ==
    [g EXCEPT !.explosions =
        Claim(@, EntityInit("EXPLOSION", pos, Vec2(0, 0), size, size, 6, t))]

spawnExplosion(g, pos, size, t) ==
    spawnParticlesFrom(
        [g EXCEPT !.explosions =
            Claim(@, EntityInit("EXPLOSION", pos, Vec2(0, 0), size, size, 6, t))],
        pos, 0, t)

spawnPowerup(g, pos, type, t) ==
    [g EXCEPT !.powerups =
        Claim(@, EntityInit(type, pos, Vec2(0, P(1)), P(16), P(16), 1, t))]

(***************************************************************************)
(* InputSystem::update.  touch is what display.getTouch(&tx, &ty) gives:   *)
(* its result (down) and the point.  joystickPos is kept as its numerators *)
(* over JOYSTICK_RADIUS.                                                   *)
(***************************************************************************)
\* floor(n / (d * sqrt(x*x + y*y))) for n >= 0, known to be at most bound.
FloorDivNorm(n, d, x, y, bound) ==
    CHOOSE q \in 0..bound :
        /\ (q * d) * (q * d) * (x * x + y * y) <= n * n
        /\ \/ q = bound
           \/ ((q + 1) * d) * ((q + 1) * d) * (x * x + y * y) > n * n

\* dx and dy after "if (dist > maxDist) { dx = (dx / dist) * maxDist; ... }"
Clip(a, dx, dy) ==
    IF dx * dx + dy * dy > JOYSTICK_RADIUS * JOYSTICK_RADIUS
    THEN Sgn(a) * FloorDivNorm(Abs(a) * JOYSTICK_RADIUS, 1, dx, dy,
                               JOYSTICK_RADIUS)
    ELSE a

Joystick(tx, ty) ==
    LET dx == tx - JOYSTICK_CENTER_X
        dy == ty - JOYSTICK_CENTER_Y
    IN  IF dx * dx + dy * dy > TOUCH_THRESHOLD * TOUCH_THRESHOLD
        THEN Vec2(Clip(dx, dx, dy), Clip(dy, dx, dy))
        ELSE Vec2(0, 0)

InputUpdate(inp, touch) ==
    IF ~touch.down
    THEN [isTouching |-> FALSE, joystickPos |-> Vec2(0, 0), firePressed |-> FALSE]
    ELSE [isTouching |-> TRUE,
          joystickPos |-> IF touch.x < SCREEN_WIDTH \div 2
                          THEN Joystick(touch.x, touch.y) ELSE inp.joystickPos,
          firePressed |-> IF touch.x > SCREEN_WIDTH \div 2
                          THEN TRUE ELSE inp.firePressed]

(***************************************************************************)
(* The per-frame updates of Game::update in PLAYING.                       *)
(***************************************************************************)
constrain(amt, low, high) ==
    IF amt < low THEN low ELSE IF amt > high THEN high ELSE amt

\* The shooting block of updatePlayer, g.player already moved.
Shoot(g, t) ==
    LET pos == g.player.pos
        up == Vec2(0, -P(8))
        h ==
          IF g.playerWeaponLevel = 1
          THEN spawnPlayerBullet(g, pos, up, t)
          ELSE IF g.playerWeaponLevel = 2
          THEN spawnPlayerBullet(
                   spawnPlayerBullet(g, VecAdd(pos, Vec2(-P(8), 0)), up, t),
                   VecAdd(pos, Vec2(P(8), 0)), up, t)
          ELSE spawnPlayerBullet(
                   spawnPlayerBullet(
                       spawnPlayerBullet(g, pos, up, t),
                       VecAdd(pos, Vec2(-P(8), 0)), Vec2(-P(1), -P(8)), t),
                   VecAdd(pos, Vec2(P(8), 0)), Vec2(P(1), -P(8)), t)
    IN  [h EXCEPT !.lastPlayerShot = t]

\* Faulty variant of FireDue: no cooldown.
FireDueAlways(g, inp, t) == inp.firePressed

FireDue(g, inp, t) == inp.firePressed /\ t - g.lastPlayerShot > 150

updatePlayer(g, inp, t) ==
    LET vel == Vec2(TruncDiv(inp.joystickPos.x * P(5), JOYSTICK_RADIUS),
                    TruncDiv(inp.joystickPos.y * P(5), JOYSTICK_RADIUS))
        raw == VecAdd(g.player.pos, vel)
        pos == Vec2(constrain(raw.x, g.player.width \div 2,
                              P(SCREEN_WIDTH) - g.player.width \div 2),
                    constrain(raw.y, g.player.height \div 2,
                              P(SCREEN_HEIGHT) - g.player.height \div 2 - P(20)))
        moved == [g EXCEPT !.player.vel = vel, !.player.pos = pos]
    IN  IF FireDue(g, inp, t) THEN Shoot(moved, t) ELSE moved

\* The "Spawn enemies" block of update; typeDraw is random(0, 100) and
\* xDraw is random(30, SCREEN_WIDTH - 30).
SpawnDue(g, t) == t - g.lastEnemySpawn > 2000

\* Faulty variant of SpawnType: the test for a tank comes first.
SpawnTypeTankFirst(typeDraw) ==
    IF typeDraw > 90 THEN "ENEMY_TANK"
    ELSE IF typeDraw > 70 THEN "ENEMY_FAST" ELSE "ENEMY_BASIC"

SpawnType(typeDraw) ==
    IF typeDraw > 70 THEN "ENEMY_FAST"
    ELSE IF typeDraw > 90 THEN "ENEMY_TANK" ELSE "ENEMY_BASIC"

SpawnSpeed(typeDraw) ==
    IF typeDraw > 70 THEN 30 ELSE IF typeDraw > 90 THEN 8 ELSE 15

\* Faulty variant of timedSpawn: a spawn that found no slot is tried again
\* in the next frame.
timedSpawnRetry(g, typeDraw, xDraw, t) ==
    IF SpawnDue(g, t)
    THEN [spawnEnemy(g, SpawnType(typeDraw), Vec2(P(xDraw), -P(20)),
                     Vec2(0, SpawnSpeed(typeDraw)), t)
            EXCEPT !.lastEnemySpawn =
                       IF FirstFree(g.enemies) = 0 THEN @ ELSE t]
    ELSE g

timedSpawn(g, typeDraw, xDraw, t) ==
    IF SpawnDue(g, t)
    THEN [spawnEnemy(g, SpawnType(typeDraw), Vec2(P(xDraw), -P(20)),
                     Vec2(0, SpawnSpeed(typeDraw)), t)
            EXCEPT !.lastEnemySpawn = t]
    ELSE g

\* dir.x * vel.y * 1.5 with dir = (player.pos - pos).normalize()
Steer(e, player) ==
    LET dx == player.pos.x - e.pos.x
        dy == player.pos.y - e.pos.y
    IN  IF dx = 0 THEN 0
        ELSE Sgn(dx) * Sgn(e.vel.y)
               * FloorDivNorm(3 * Abs(e.vel.y) * Abs(dx), 2, dx, dy,
                              (3 * Abs(e.vel.y)) \div 2)

\* One pass of the loop body of updateEnemies; shootDraw is random(0, 100).
updateEnemy(g, i, shootDraw, t) ==
    LET e == g.enemies[i]
        pos == Vec2(e.pos.x + Steer(e, g.player), e.pos.y + e.vel.y)
        moved == [g EXCEPT !.enemies[i].pos = pos]
    IN  IF ~e.active THEN g
        ELSE IF pos.y > P(SCREEN_HEIGHT + 20)
        THEN [moved EXCEPT !.enemies[i] = deactivate(@)]
        ELSE IF shootDraw < 2
        THEN spawnEnemyBullet(moved, pos, Vec2(0, P(3)), t)
        ELSE moved

RECURSIVE updateEnemiesFrom(_, _, _, _)
updateEnemiesFrom(g, i, shootDraws, t) ==
    IF i > Len(g.enemies) THEN g
    ELSE updateEnemiesFrom(updateEnemy(g, i, shootDraws[i], t),
                           i + 1, shootDraws, t)

updateEnemies(g, shootDraws, t) == updateEnemiesFrom(g, 1, shootDraws, t)

\* pos = pos + vel
Moved(e) == [e EXCEPT !.pos = VecAdd(e.pos, e.vel)]

\* Faulty variant of updatePlayerBullet: a bullet is never culled.
updatePlayerBulletKept(b) == IF ~b.active THEN b ELSE Moved(b)

updatePlayerBullet(b) ==
    IF ~b.active THEN b
    ELSE IF Moved(b).pos.y < -P(10) THEN deactivate(Moved(b)) ELSE Moved(b)

\* Faulty variant of updateEnemyBullet: culled at SCREEN_HEIGHT + 10 itself.
updateEnemyBulletInclusive(b) ==
    IF ~b.active THEN b
    ELSE IF Moved(b).pos.y >= P(SCREEN_HEIGHT + 10)
    THEN deactivate(Moved(b)) ELSE Moved(b)

updateEnemyBullet(b) ==
    IF ~b.active THEN b
    ELSE IF Moved(b).pos.y > P(SCREEN_HEIGHT + 10)
    THEN deactivate(Moved(b)) ELSE Moved(b)

updateBullets(g) ==
    [g EXCEPT
       !.playerBullets =
           [i \in DOMAIN g.playerBullets |->
               updatePlayerBullet(g.playerBullets[i])],
       !.enemyBullets =
           [i \in DOMAIN g.enemyBullets |->
               updateEnemyBullet(g.enemyBullets[i])]]

updatePowerup(e) ==
    IF ~e.active THEN e
    ELSE IF Moved(e).pos.y > P(SCREEN_HEIGHT + 20)
    THEN deactivate(Moved(e)) ELSE Moved(e)

updatePowerups(g) ==
    [g EXCEPT
       !.powerups =
           [i \in DOMAIN g.powerups |-> updatePowerup(g.powerups[i])]]

\* Faulty variant of updateExplosion: the frame advances on every tick.
updateExplosionEveryTick(e, t) ==
    LET m == [e EXCEPT !.animFrame = e.animFrame + 1, !.lastAnimTime = t]
    IN  IF ~e.active THEN e
        ELSE IF m.animFrame >= m.health THEN deactivate(m) ELSE m

updateExplosion(e, t) ==
    LET m == [e EXCEPT !.animFrame = e.animFrame + 1, !.lastAnimTime = t]
    IN  IF ~e.active THEN e
        ELSE IF t - e.lastAnimTime > 50
        THEN (IF m.animFrame >= m.health THEN deactivate(m) ELSE m)
        ELSE e

updateExplosions(g, t) ==
    [g EXCEPT
       !.explosions =
           [i \in DOMAIN g.explosions |-> updateExplosion(g.explosions[i], t)]]

\* Faulty variant of updateParticle: deactivated below 0, one tick late.
updateParticleLate(e) ==
    LET m == [Moved(e) EXCEPT !.health = e.health - 1]
    IN  IF ~e.active THEN e
        ELSE IF m.health < 0 THEN deactivate(m) ELSE m

updateParticle(e) ==
    LET m == [Moved(e) EXCEPT !.health = e.health - 1]
    IN  IF ~e.active THEN e
        ELSE IF m.health <= 0 THEN deactivate(m) ELSE m

updateParticles(g) ==
    [g EXCEPT
       !.particles =
           [i \in DOMAIN g.particles |-> updateParticle(g.particles[i])]]

scroll(g) ==
    [g EXCEPT !.scrollY = IF g.scrollY + 1 > 32 THEN 0 ELSE g.scrollY + 1]

\* Game::update in PLAYING from its start through the spawn block, and from
\* updateEnemies up to the call of checkCollisions.
updateToSpawn(g, inp, typeDraw, xDraw, t) ==
    timedSpawn(updatePlayer(scroll(g), inp, t), typeDraw, xDraw, t)

updateFromEnemies(g, shootDraws, t) ==
    updateParticles(
      updateExplosions(updatePowerups(updateBullets(
          updateEnemies(g, shootDraws, t))), t))

(***************************************************************************)
(* Game::checkCollisions, one operator per loop.  The sound cues are left  *)
(* out: SoundSystem keeps its own state and the game never reads it.       *)
(***************************************************************************)
\* Faulty variant of HitEnemy: the last intersecting enemy, not the first.
HitEnemyLast(g, i) ==
    LET hits == {j \in DOMAIN g.enemies :
                    /\ g.enemies[j].active
                    /\ intersects(getRect(g.playerBullets[i]),
                                  getRect(g.enemies[j]))}
    IN  IF hits = {} THEN 0 ELSE CHOOSE j \in hits : \A k \in hits : j >= k

\* The enemy index the inner loop of "Player bullets vs enemies" breaks at
\* for bullet i, 0 when it runs to the end.
HitEnemy(g, i) ==
    LET hits == {j \in DOMAIN g.enemies :
                    /\ g.enemies[j].active
                    /\ intersects(getRect(g.playerBullets[i]),
                                  getRect(g.enemies[j]))}
    IN  IF hits = {} THEN 0 ELSE CHOOSE j \in hits : \A k \in hits : j <= k

\* The "if (enemies[j].health <= 0)" branch; dropDraw is random(0, 100) and
\* kindDraw is random(0, 2).
killEnemy(g, j, dropDraw, kindDraw, t) ==
    LET e == g.enemies[j]
        boom == spawnExplosion([g EXCEPT !.score = g.score + 100],
                               e.pos, e.width, t)
        drop == IF dropDraw < 20
                THEN spawnPowerup(boom, e.pos,
                                  IF kindDraw = 0 THEN "POWERUP_WEAPON"
                                  ELSE "POWERUP_HEALTH", t)
                ELSE boom
    IN  [drop EXCEPT !.enemies[j] = deactivate(@)]

\* One pass of the outer loop of "Player bullets vs enemies", for bullet i.
bulletVsEnemies(g, i, dropDraw, kindDraw, t) ==
    LET j == HitEnemy(g, i)
        hit == [g EXCEPT !.playerBullets[i] = deactivate(@),
                         !.enemies[j].health = @ - 10]
    IN  IF ~g.playerBullets[i].active \/ j = 0 THEN g
        ELSE IF hit.enemies[j].health <= 0
        THEN killEnemy(hit, j, dropDraw, kindDraw, t)
        ELSE hit

\* One pass of the loop "Enemy bullets vs player".
enemyBulletVsPlayer(g, i, t) ==
    IF /\ g.enemyBullets[i].active
       /\ intersects(getRect(g.enemyBullets[i]), getRect(g.player))
    THEN spawnExplosion([g EXCEPT !.enemyBullets[i] = deactivate(@),
                                  !.lives = g.lives - 1],
                        g.player.pos, g.player.width, t)
    ELSE g

RECURSIVE enemyBulletsVsPlayerFrom(_, _, _)
enemyBulletsVsPlayerFrom(g, i, t) ==
    IF i > Len(g.enemyBullets) THEN g
    ELSE enemyBulletsVsPlayerFrom(enemyBulletVsPlayer(g, i, t), i + 1, t)

\* Faulty variant of enemyBulletsVsPlayer: the loop ends at the first hit.
enemyBulletsVsPlayerFirstHit(g, t) ==
    LET hits == {i \in ActiveSet(g.enemyBullets) :
                    intersects(getRect(g.enemyBullets[i]), getRect(g.player))}
    IN  IF hits = {} THEN g
        ELSE enemyBulletVsPlayer(g, CHOOSE i \in hits :
                                        \A j \in hits : i <= j, t)

enemyBulletsVsPlayer(g, t) == enemyBulletsVsPlayerFrom(g, 1, t)

\* Faulty variant of enemyVsPlayer: the slot is tested whether active or not.
enemyVsPlayerStale(g, i, t) ==
    IF intersects(getRect(g.enemies[i]), getRect(g.player))
    THEN [spawnExplosion(
              spawnExplosion([g EXCEPT !.lives = g.lives - 1],
                             g.enemies[i].pos, g.enemies[i].width, t),
              g.player.pos, g.player.width, t)
            EXCEPT !.enemies[i] = deactivate(@)]
    ELSE g

\* Faulty variant of enemyVsPlayer: the contact scores like a kill.
enemyVsPlayerScoring(g, i, t) ==
    IF /\ g.enemies[i].active
       /\ intersects(getRect(g.enemies[i]), getRect(g.player))
    THEN [spawnExplosion(
              spawnExplosion([g EXCEPT !.lives = g.lives - 1,
                                       !.score = g.score + 100],
                             g.enemies[i].pos, g.enemies[i].width, t),
              g.player.pos, g.player.width, t)
            EXCEPT !.enemies[i] = deactivate(@)]
    ELSE g

\* Faulty variant of enemyVsPlayer: the contact also deactivates the player.
enemyVsPlayerFatal(g, i, t) ==
    IF /\ g.enemies[i].active
       /\ intersects(getRect(g.enemies[i]), getRect(g.player))
    THEN [spawnExplosion(
              spawnExplosion([g EXCEPT !.lives = g.lives - 1],
                             g.enemies[i].pos, g.enemies[i].width, t),
              g.player.pos, g.player.width, t)
            EXCEPT !.enemies[i] = deactivate(@), !.player = deactivate(@)]
    ELSE g

\* One pass of the loop "Enemies vs player".
enemyVsPlayer(g, i, t) ==
    IF /\ g.enemies[i].active
       /\ intersects(getRect(g.enemies[i]), getRect(g.player))
    THEN [spawnExplosion(
              spawnExplosion([g EXCEPT !.lives = g.lives - 1],
                             g.enemies[i].pos, g.enemies[i].width, t),
              g.player.pos, g.player.width, t)
            EXCEPT !.enemies[i] = deactivate(@)]
    ELSE g

RECURSIVE enemiesVsPlayerFrom(_, _, _)
enemiesVsPlayerFrom(g, i, t) ==
    IF i > Len(g.enemies) THEN g
    ELSE enemiesVsPlayerFrom(enemyVsPlayer(g, i, t), i + 1, t)

enemiesVsPlayer(g, t) == enemiesVsPlayerFrom(g, 1, t)

\* Faulty variant of powerupVsPlayer: the weapon level is not capped.
powerupVsPlayerUncapped(g, i) ==
    IF /\ g.powerups[i].active
       /\ intersects(getRect(g.powerups[i]), getRect(g.player))
    THEN [g EXCEPT
            !.playerWeaponLevel =
                IF g.powerups[i].type = "POWERUP_WEAPON" THEN @ + 1 ELSE @,
            !.lives =
                IF g.powerups[i].type = "POWERUP_HEALTH"
                THEN Min(g.lives + 1, 5) ELSE @,
            !.powerups[i] = deactivate(@)]
    ELSE g

\* One pass of the loop "Powerups vs player".
powerupVsPlayer(g, i) ==
    IF /\ g.powerups[i].active
       /\ intersects(getRect(g.powerups[i]), getRect(g.player))
    THEN [g EXCEPT
            !.playerWeaponLevel =
                IF g.powerups[i].type = "POWERUP_WEAPON"
                THEN Min(g.playerWeaponLevel + 1, 3) ELSE @,
            !.lives =
                IF g.powerups[i].type = "POWERUP_HEALTH"
                THEN Min(g.lives + 1, 5) ELSE @,
            !.powerups[i] = deactivate(@)]
    ELSE g

RECURSIVE powerupsVsPlayerFrom(_, _)
powerupsVsPlayerFrom(g, i) ==
    IF i > Len(g.powerups) THEN g
    ELSE powerupsVsPlayerFrom(powerupVsPlayer(g, i), i + 1)

powerupsVsPlayer(g) == powerupsVsPlayerFrom(g, 1)

\* Faulty variant of checkGameOver: the test is lives < 0.
checkGameOverBelowZero(g) ==
    IF g.lives < 0 THEN [g EXCEPT !.state = "GAME_OVER"] ELSE g

\* "if (lives <= 0) state = GAME_OVER;"
checkGameOver(g) == IF g.lives <= 0 THEN [g EXCEPT !.state = "GAME_OVER"] ELSE g

(***************************************************************************)
(* What the environment may do.  env is fixed at the start of a behaviour  *)
(* and names the sets the frames draw from:                                *)
(*   dts      millis() between two frames of loop()                        *)
(*   touches  what display.getTouch reports                                *)
(*   types    random(0, 100) in the spawn block                            *)
(*   xs       random(30, SCREEN_WIDTH - 30)                                *)
(*   shoots   random(0, 100) in updateEnemies                              *)
(*   drops    random(0, 100) in checkCollisions                            *)
(*   kinds    random(0, 2) in checkCollisions                              *)
(* The draws are one value of each class the code tells apart.             *)
(***************************************************************************)
Touch(x, y) == [down |-> TRUE, x |-> x, y |-> y]
NoTouch == [down |-> FALSE, x |-> 0, y |-> 0]
FireButton == Touch(SCREEN_WIDTH - 60, SCREEN_HEIGHT - 60)
StickDown == Touch(JOYSTICK_CENTER_X, JOYSTICK_CENTER_Y + JOYSTICK_RADIUS)
StickLeft == Touch(JOYSTICK_CENTER_X - JOYSTICK_RADIUS, JOYSTICK_CENTER_Y)
\* tx = SCREEN_WIDTH / 2 is neither "tx < ..." nor "tx > ...".
Tap == Touch(SCREEN_WIDTH \div 2, 10)

\* A profile's script fixes dts and touches for its first frames; the frames
\* after the script draw from the profile's dts and touches.
\* powerups: the player fires at will and every kill drops a powerup.
\* assault:  the player never fires and the enemies shoot at will.
\* steer:    short frames and long ones, stick and fire button, enemies
\*           spawned off the player's column.
\* clock:    three long frames with the fire button held (an enemy is
\*           spawned and killed), then short frames of varying length with
\*           the button still held.
\* fall:     one enemy spawned off the player's column shoots at will and
\*           the fire button is held; the frames then run at the nominal
\*           period until the enemy's bullets have crossed the field.
\* rescue:   an enemy is killed and drops a health powerup; a second enemy,
\*           spawned three frames later, shoots at will and reaches the
\*           player in the frame in which the powerup does.
Slow(touch) == [dts |-> {2001}, touches |-> {touch}]
Quick(touch) == [dts |-> {33}, touches |-> {touch}]

Environments ==
    {[name |-> "powerups", frames |-> PowerupFrames, script |-> <<>>,
      dts |-> {2001}, touches |-> {NoTouch, FireButton},
      types |-> {71, 91}, xs |-> {SCREEN_WIDTH \div 2},
      shoots |-> {99}, drops |-> {0}, kinds |-> {0, 1}],
     [name |-> "assault", frames |-> AssaultFrames, script |-> <<>>,
      dts |-> {2001}, touches |-> {NoTouch, Tap},
      types |-> {91}, xs |-> {SCREEN_WIDTH \div 2},
      shoots |-> {0, 99}, drops |-> {99}, kinds |-> {0}],
     [name |-> "steer", frames |-> SteerFrames, script |-> <<>>,
      dts |-> {33, 2001},
      touches |-> {NoTouch, StickDown, StickLeft, FireButton},
      types |-> {0}, xs |-> {SCREEN_WIDTH \div 2 - 40},
      shoots |-> {99}, drops |-> {99}, kinds |-> {0}],
     [name |-> "clock", frames |-> ClockFrames,
      script |-> <<Slow(FireButton), Slow(FireButton), Slow(FireButton)>>,
      dts |-> {33, 51}, touches |-> {FireButton},
      types |-> {91}, xs |-> {SCREEN_WIDTH \div 2},
      shoots |-> {99}, drops |-> {99}, kinds |-> {0}],
     [name |-> "fall", frames |-> FallFrames,
      script |-> <<Slow(Tap), Slow(FireButton)>>,
      dts |-> {33}, touches |-> {FireButton},
      types |-> {91}, xs |-> {SCREEN_WIDTH \div 2 - 40},
      shoots |-> {0, 99}, drops |-> {99}, kinds |-> {0}],
     [name |-> "rescue", frames |-> RescueFrames,
      script |-> <<Slow(FireButton), Slow(FireButton), Quick(NoTouch),
                   Quick(NoTouch), Quick(NoTouch), Slow(NoTouch)>>,
      dts |-> {33}, touches |-> {NoTouch},
      types |-> {91}, xs |-> {SCREEN_WIDTH \div 2},
      shoots |-> {0, 99}, drops |-> {0}, kinds |-> {1}],
     [name |-> "basic", frames |-> BasicFrames,
      script |-> <<Slow(FireButton)>>,
      dts |-> {2001}, touches |-> {NoTouch, FireButton},
      types |-> {0}, xs |-> {SCREEN_WIDTH \div 2},
      shoots |-> {99}, drops |-> {99}, kinds |-> {0}]}

\* What the frame about to run may draw.
FrameDts ==
    IF frames < Len(env.script) THEN env.script[frames + 1].dts ELSE env.dts
FrameTouches ==
    IF frames < Len(env.script) THEN env.script[frames + 1].touches
    ELSE env.touches

\* The draws of updateEnemies, one per slot; a slot that is inactive when
\* the loop starts draws nothing.
ShootChoices(g) ==
    {f \in [DOMAIN g.enemies -> env.shoots \cup {99}] :
        \A i \in DOMAIN g.enemies : ~g.enemies[i].active => f[i] = 99}

\* The first active player bullet at index i or above, 0 if there is none:
\* the passes of the first loop of checkCollisions in between only continue.
NextBullet(g, i) ==
    LET s == {k \in DOMAIN g.playerBullets :
                 k >= i /\ g.playerBullets[k].active}
    IN  IF s = {} THEN 0 ELSE CHOOSE k \in s : \A m \in s : k <= m

(***************************************************************************)
(* The state machine                                                       *)
(***************************************************************************)
\* The game itself makes its intersects calls inside checkCollisions; probe
\* stands for a call made on two boxes directly and is idle in a game.
Idle == [a |-> Rect(0, 0, 0, 0), r |-> Rect(0, 0, 0, 0),
         called |-> FALSE, result |-> FALSE]

Init ==
    /\ env \in Environments
    /\ game = GameInit(ZeroGame, 0)
    /\ input = [isTouching |-> FALSE, joystickPos |-> Vec2(0, 0),
                firePressed |-> FALSE]
    /\ now = 0
    /\ lastFrame = 0
    /\ frames = 0
    /\ pc = "loop"
    /\ ci = 0
    /\ probe = Idle

\* loop() when a frame is due: the time is read, input.update() runs, and
\* game.update() begins.
FrameStart(dt, touch) ==
    /\ pc = "loop"
    /\ frames < env.frames
    /\ (now + dt) - lastFrame >= FRAME_TIME
    /\ now' = now + dt
    /\ lastFrame' = now + dt
    /\ frames' = frames + 1
    /\ input' = InputUpdate(input, touch)
    /\ env' = env
    /\ probe' = probe

\* update() in TITLE.
FrameTitle ==
    \E dt \in FrameDts, touch \in FrameTouches :
        /\ game.state = "TITLE"
        /\ FrameStart(dt, touch)
        /\ game' = IF input'.isTouching THEN startGame(game, now') ELSE game
        /\ UNCHANGED <<pc, ci>>

\* Faulty variant of FrameGameOver: particles keep moving without a touch.
FrameGameOverAnimated ==
    \E dt \in FrameDts, touch \in FrameTouches :
        /\ game.state = "GAME_OVER"
        /\ FrameStart(dt, touch)
        /\ game' = IF input'.isTouching THEN startGame(game, now')
                   ELSE updateParticles(game)
        /\ UNCHANGED <<pc, ci>>

\* update() in GAME_OVER.
FrameGameOver ==
    \E dt \in FrameDts, touch \in FrameTouches :
        /\ game.state = "GAME_OVER"
        /\ FrameStart(dt, touch)
        /\ game' = IF input'.isTouching THEN startGame(game, now') ELSE game
        /\ UNCHANGED <<pc, ci>>

\* update() in PLAYING up to the call of checkCollisions.
\* Faulty variant of FramePlaying: the timed spawn comes after the updaters.
FramePlayingSpawnLast ==
    \E dt \in FrameDts, touch \in FrameTouches :
        /\ game.state = "PLAYING"
        /\ FrameStart(dt, touch)
        /\ LET due == SpawnDue(game, now')
               g == updatePlayer(scroll(game), input', now')
           IN  \E typeDraw \in (IF due THEN env.types ELSE {0}),
                  xDraw \in (IF due THEN env.xs ELSE {30}),
                  shootDraws \in ShootChoices(g) :
                 game' = timedSpawn(updateFromEnemies(g, shootDraws, now'),
                                    typeDraw, xDraw, now')
        /\ IF NextBullet(game', 1) # 0
           THEN pc' = "bulletsVsEnemies" /\ ci' = NextBullet(game', 1)
           ELSE pc' = "enemyBulletsVsPlayer" /\ ci' = 0

FramePlaying ==
    \E dt \in FrameDts, touch \in FrameTouches :
        /\ game.state = "PLAYING"
        /\ FrameStart(dt, touch)
        /\ LET due == SpawnDue(game, now')
           IN  \E typeDraw \in (IF due THEN env.types ELSE {0}),
                  xDraw \in (IF due THEN env.xs ELSE {30}) :
                 LET g == updateToSpawn(game, input', typeDraw, xDraw, now')
                 IN  \E shootDraws \in ShootChoices(g) :
                        game' = updateFromEnemies(g, shootDraws, now')
        /\ IF NextBullet(game', 1) # 0
           THEN pc' = "bulletsVsEnemies" /\ ci' = NextBullet(game', 1)
           ELSE pc' = "enemyBulletsVsPlayer" /\ ci' = 0

\* checkCollisions, first loop: the pass for bullet ci.
BulletVsEnemies ==
    /\ pc = "bulletsVsEnemies"
    /\ LET j == HitEnemy(game, ci)
           kill == j # 0 /\ game.enemies[j].health <= 10
       IN  \E dropDraw \in (IF kill THEN env.drops ELSE {99}) :
             \E kindDraw \in (IF kill /\ dropDraw < 20 THEN env.kinds ELSE {0}) :
                game' = bulletVsEnemies(game, ci, dropDraw, kindDraw, now)
    /\ IF NextBullet(game', ci + 1) # 0
       THEN pc' = pc /\ ci' = NextBullet(game', ci + 1)
       ELSE pc' = "enemyBulletsVsPlayer" /\ ci' = 0
    /\ UNCHANGED <<input, now, lastFrame, frames, env, probe>>

\* checkCollisions, second loop.
EnemyBulletsVsPlayer ==
    /\ pc = "enemyBulletsVsPlayer"
    /\ game' = enemyBulletsVsPlayer(game, now)
    /\ pc' = "enemiesVsPlayer"
    /\ UNCHANGED <<input, now, lastFrame, frames, ci, env, probe>>

\* checkCollisions, third loop.
EnemiesVsPlayer ==
    /\ pc = "enemiesVsPlayer"
    /\ game' = enemiesVsPlayer(game, now)
    /\ pc' = "powerupsVsPlayer"
    /\ UNCHANGED <<input, now, lastFrame, frames, ci, env, probe>>

\* Faulty variant of PowerupsVsPlayer: the game-over test runs before the
\* powerup loop.
PowerupsVsPlayerAfterTest ==
    /\ pc = "powerupsVsPlayer"
    /\ game' = powerupsVsPlayer(checkGameOver(game))
    /\ pc' = "loop"
    /\ UNCHANGED <<input, now, lastFrame, frames, ci, env, probe>>

\* checkCollisions, fourth loop, and the game-over test that ends update();
\* sound.update() and render() change nothing here.
PowerupsVsPlayer ==
    /\ pc = "powerupsVsPlayer"
    /\ game' = checkGameOver(powerupsVsPlayer(game))
    /\ pc' = "loop"
    /\ UNCHANGED <<input, now, lastFrame, frames, ci, env, probe>>

Next ==
    \/ FrameTitle
    \/ FrameGameOver
    \/ FramePlaying
    \/ BulletVsEnemies
    \/ EnemyBulletsVsPlayer
    \/ EnemiesVsPlayer
    \/ PowerupsVsPlayer

Spec == Init /\ [][Next]_vars

\* loop() is called again and again by the runtime, and a call runs to its
\* end: a frame that is due is run, and a collision loop that is reached is
\* executed.
FairProfiles == {"clock", "rescue"}

FairInit == Init /\ env.name \in FairProfiles

\* A frame of loop(), whatever update() does in it.
Frame ==
    /\ pc = "loop"
    /\ frames < env.frames
    /\ \E dt \in FrameDts : (now + dt) - lastFrame >= FRAME_TIME
    /\ frames' = frames + 1

\* A loop of checkCollisions goes on: to its next bullet or to the next loop.
Collide ==
    /\ pc # "loop"
    /\ pc' \in {"loop", "bulletsVsEnemies", "enemyBulletsVsPlayer",
                "enemiesVsPlayer", "powerupsVsPlayer"}
    /\ ci' \in 0..MAX_PLAYER_BULLETS

FairSpec ==
    FairInit /\ [][Next]_vars /\ WF_frames(Frame) /\ WF_<<pc, ci>>(Collide)

(***************************************************************************)
(* Rect::intersects on its own: two boxes of positive size with integer    *)
(* corners in a bounded range, and one call a.intersects(r).               *)
(***************************************************************************)
RectSpan == 3
RectSize == 2

Boxes ==
    {Rect(x, y, w, h) : x \in 0..RectSpan, y \in 0..RectSpan,
                        w \in 1..RectSize, h \in 1..RectSize}

RectInit ==
    /\ probe \in {[a |-> a, r |-> r, called |-> FALSE, result |-> FALSE] :
                     a \in Boxes, r \in Boxes}
    /\ env \in {e \in Environments : e.name = "steer"}
    /\ game = GameInit(ZeroGame, 0)
    /\ input = [isTouching |-> FALSE, joystickPos |-> Vec2(0, 0),
                firePressed |-> FALSE]
    /\ now = 0
    /\ lastFrame = 0
    /\ frames = 0
    /\ pc = "loop"
    /\ ci = 0

Intersect ==
    /\ ~probe.called
    /\ probe' = [probe EXCEPT !.called = TRUE,
                               !.result = intersects(probe.a, probe.r)]
    /\ UNCHANGED <<game, input, now, lastFrame, frames, pc, ci, env>>

RectNext == Intersect

RectSpec == RectInit /\ [][RectNext]_vars

(***************************************************************************)
(* Player fire at the source's own sizes: a field 320 high and 30 bullet   *)
(* slots, frames 33 ms apart.  Only what fire depends on is kept: the      *)
(* shooting part of updatePlayer and the player-bullet loop of             *)
(* updateBullets, for a player that stands still and bullets that meet no  *)
(* enemy, which is when most bullets are in flight.                        *)
(***************************************************************************)
FULL_SCREEN_HEIGHT == 320
FULL_PLAYER_BULLETS == 30
BarrageTicks == 50
BarrageDelay == 4

\* The player's y: where init() puts it and the lowest the clamp allows.
BarrageYs == {FULL_SCREEN_HEIGHT - 60, FULL_SCREEN_HEIGHT - 12 - 20}

\* Fire is pressed after 0..BarrageDelay frames and held from then on.
BarrageEnvs ==
    {[name |-> "barrage", frames |-> BarrageTicks,
      script |-> [i \in 1..n |-> Quick(NoTouch)],
      dts |-> {FRAME_TIME}, touches |-> {FireButton},
      types |-> {0}, xs |-> {SCREEN_WIDTH \div 2},
      shoots |-> {99}, drops |-> {99}, kinds |-> {0}] : n \in 0..BarrageDelay}

BarrageInit ==
    /\ env \in BarrageEnvs
    /\ game \in
          {[startGame(ZeroGame, 0) EXCEPT
              !.playerBullets = [i \in 1..FULL_PLAYER_BULLETS |-> ZeroEntity],
              !.playerWeaponLevel = level,
              !.player.pos = Vec2(P(SCREEN_WIDTH \div 2), P(y))] :
             level \in 1..3, y \in BarrageYs}
    /\ input = [isTouching |-> FALSE, joystickPos |-> Vec2(0, 0),
                firePressed |-> FALSE]
    /\ now = 0
    /\ lastFrame = 0
    /\ frames = 0
    /\ pc = "loop"
    /\ ci = 0
    /\ probe = Idle

\* The "Shooting" block of updatePlayer, then the first loop of updateBullets.
fireAndFly(g, inp, t) ==
    LET fired == IF FireDue(g, inp, t) THEN Shoot(g, t) ELSE g
    IN  [fired EXCEPT
           !.playerBullets =
               [i \in DOMAIN fired.playerBullets |->
                   updatePlayerBullet(fired.playerBullets[i])]]

BarrageTick ==
    \E dt \in FrameDts, touch \in FrameTouches :
        /\ game.state = "PLAYING"
        /\ FrameStart(dt, touch)
        /\ game' = fireAndFly(game, input', now')
        /\ UNCHANGED <<pc, ci>>

BarrageNext == BarrageTick

BarrageSpec == BarrageInit /\ [][BarrageNext]_vars

(***************************************************************************)
(* Properties                                                              *)
(***************************************************************************)
Pools == <<game.enemies, game.playerBullets, game.enemyBullets,
           game.powerups, game.explosions, game.particles>>
Capacities == <<MAX_ENEMIES, MAX_PLAYER_BULLETS, MAX_ENEMY_BULLETS,
                MAX_POWERUPS, MAX_EXPLOSIONS, MAX_PARTICLES>>
Full(pool) == FirstFree(pool) = 0
\* The slots of pool that a step turns from inactive to active.
Activated(old, new) == {i \in DOMAIN old : ~old[i].active /\ new[i].active}
\* A step that is a frame of loop().
IsFrame == pc = "loop" /\ frames' = frames + 1

\* C1: in every reachable state each of the six pools has exactly its
\* capacity of slots and at most that many of them active.
C1_PoolsWithinCapacity ==
    \A k \in 1..6 :
        /\ DOMAIN Pools[k] = 1..Capacities[k]
        /\ ActiveCount(Pools[k]) <= Capacities[k]

\* C1 witness: the enemy, explosion and particle pools are full at once.
C1_Witness ==
    /\ Full(game.enemies)
    /\ Full(game.explosions)
    /\ Full(game.particles)

\* C2: in every reachable state 0 <= lives <= 5.
C2_LivesInRange == game.lives \in 0..5

\* C3: playerWeaponLevel starts at 1 and stays in {1,2,3}; the powerup loop
\* raises it by the number of weapon powerups picked up, capped at 3; no
\* other step changes it except a reset to 1 by startGame.
WeaponPickups ==
    {i \in DOMAIN game.powerups :
        /\ game.powerups[i].active
        /\ game.powerups[i].type = "POWERUP_WEAPON"
        /\ intersects(getRect(game.powerups[i]), getRect(game.player))}

C3_WeaponLevelStep ==
    /\ game'.playerWeaponLevel \in {1, 2, 3}
    /\ IF pc = "powerupsVsPlayer"
       THEN game'.playerWeaponLevel =
                Min(game.playerWeaponLevel + Cardinality(WeaponPickups), 3)
       ELSE IF IsFrame /\ game.state # "PLAYING" /\ input'.isTouching
       THEN game'.playerWeaponLevel = 1
       ELSE game'.playerWeaponLevel = game.playerWeaponLevel

C4_StateStep ==
    IF IsFrame /\ game.state \in {"TITLE", "GAME_OVER"}
    THEN game'.state = IF input'.isTouching THEN "PLAYING" ELSE game.state
    ELSE IF pc = "powerupsVsPlayer"
    THEN /\ game.state = "PLAYING"
         /\ game'.state = IF game'.lives <= 0 THEN "GAME_OVER" ELSE "PLAYING"
    ELSE game'.state = game.state

C4_StateMachine ==
    /\ game.state = "TITLE"
    /\ [][C4_StateStep]_vars

\* Slots that init() cleared while they were live: an inactive particle with
\* lifetime left (updateParticles deactivates only at health <= 0).
ClearedLive ==
    \E i \in DOMAIN game.particles :
        /\ ~game.particles[i].active
        /\ game.particles[i].type = "PARTICLE"
        /\ game.particles[i].health > 0

\* C4 witness: a game restarted from GAME_OVER is being played.
C4_Witness ==
    /\ game.state = "PLAYING"
    /\ pc = "enemiesVsPlayer"
    /\ ClearedLive

\* C5: a frame in TITLE or GAME_OVER with a touch ends with state PLAYING,
\* score 0, lives 3, weapon level 1, wave 1, both cooldown timestamps 0,
\* the player active at its start position and every pool slot inactive,
\* and runs no update or collision (the next step is the next frame).
StartPosition == Vec2(P(SCREEN_WIDTH \div 2), P(SCREEN_HEIGHT - 60))

FreshGame(g) ==
    /\ g.state = "PLAYING"
    /\ g.score = 0
    /\ g.lives = 3
    /\ g.playerWeaponLevel = 1
    /\ g.wave = 1
    /\ g.lastEnemySpawn = 0
    /\ g.lastPlayerShot = 0
    /\ g.player.active
    /\ g.player.pos = StartPosition
    /\ ActiveSet(g.enemies) = {}
    /\ ActiveSet(g.playerBullets) = {}
    /\ ActiveSet(g.enemyBullets) = {}
    /\ ActiveSet(g.powerups) = {}
    /\ ActiveSet(g.explosions) = {}
    /\ ActiveSet(g.particles) = {}

C5_StartStep ==
    (IsFrame /\ game.state \in {"TITLE", "GAME_OVER"} /\ input'.isTouching)
        => (FreshGame(game') /\ pc' = "loop")

C5_StartResets == [][C5_StartStep]_vars

\* C5 witness: a restart that cleared live entities has just happened.
C5_Witness ==
    /\ pc = "loop"
    /\ FreshGame(game)
    /\ ClearedLive
    /\ game.player.lastAnimTime = now

\* C6: a frame in TITLE or GAME_OVER without a touch leaves the whole Game
\* object as it was.
C6_IdleStep ==
    (IsFrame /\ game.state \in {"TITLE", "GAME_OVER"} /\ ~input'.isTouching)
        => (game' = game /\ pc' = "loop")

C6_IdleFrameFrozen == [][C6_IdleStep]_vars

\* C6 witness: GAME_OVER with a live particle and a live explosion whose
\* first frame advance is overdue, so a frame has passed since game over.
C6_Witness ==
    /\ game.state = "GAME_OVER"
    /\ ~input.isTouching
    /\ ActiveSet(game.particles) # {}
    /\ \E i \in ActiveSet(game.explosions) :
          /\ game.explosions[i].animFrame = 0
          /\ now - game.explosions[i].lastAnimTime > 50

\* C7: whenever state is PLAYING the player is active.
C7_PlayerActiveWhilePlaying == game.state = "PLAYING" => game.player.active

\* C7 witness: still PLAYING, inside checkCollisions, after lives ran out.
C7_Witness ==
    /\ game.state = "PLAYING"
    /\ pc = "powerupsVsPlayer"
    /\ game.lives <= 0
    /\ game.player.active

\* C8: in the pass of the first collision loop for an active bullet, if the
\* bullet intersects active enemies then the lowest-index one loses 10
\* health, the bullet is deactivated and no other enemy changes health or
\* active flag; if it intersects none, nothing changes.
Hits(g, i) ==
    {j \in ActiveSet(g.enemies) :
        intersects(getRect(g.playerBullets[i]), getRect(g.enemies[j]))}

C8_BulletStep ==
    pc = "bulletsVsEnemies" =>
        /\ game.playerBullets[ci].active
        /\ IF Hits(game, ci) = {}
           THEN game' = game
           ELSE \E j \in Hits(game, ci) :
                  /\ \A k \in Hits(game, ci) : j <= k
                  /\ game'.enemies[j].health = game.enemies[j].health - 10
                  /\ ~game'.playerBullets[ci].active
                  /\ \A k \in DOMAIN game.enemies : k # j =>
                        /\ game'.enemies[k].health = game.enemies[k].health
                        /\ game'.enemies[k].active = game.enemies[k].active

C8_FirstEnemyOnly == [][C8_BulletStep]_vars

\* C8 witness: the bullet about to be resolved intersects two enemies.
C8_Witness ==
    /\ pc = "bulletsVsEnemies"
    /\ Cardinality(Hits(game, ci)) >= 2

\* C9 as stated: a lethal hit deactivates the enemy, adds exactly 100 to
\* score and activates exactly one explosion slot and exactly 8 particle
\* slots.
Lethal ==
    /\ pc = "bulletsVsEnemies"
    /\ Hits(game, ci) # {}
    /\ \E j \in Hits(game, ci) :
          /\ \A k \in Hits(game, ci) : j <= k
          /\ game.enemies[j].health <= 10

C9_LethalStepAsStated ==
    Lethal =>
        /\ ~game'.enemies[HitEnemy(game, ci)].active
        /\ game'.score = game.score + 100
        /\ Cardinality(Activated(game.explosions, game'.explosions)) = 1
        /\ Cardinality(Activated(game.particles, game'.particles)) = 8

C9_LethalHitAsStated == [][C9_LethalStepAsStated]_vars

\* C9 amended: a lethal hit deactivates the enemy, adds exactly 100 to
\* score, activates one explosion slot if the explosion pool has an
\* inactive one (none otherwise) and activates min(8, inactive particle
\* slots) particle slots.
C9_LethalStep ==
    Lethal =>
        /\ ~game'.enemies[HitEnemy(game, ci)].active
        /\ game'.score = game.score + 100
        /\ Cardinality(Activated(game.explosions, game'.explosions))
              = Min(1, FreeCount(game.explosions))
        /\ Cardinality(Activated(game.particles, game'.particles))
              = Min(8, FreeCount(game.particles))
        /\ ActiveSet(game.explosions) \subseteq ActiveSet(game'.explosions)
        /\ ActiveSet(game.particles) \subseteq ActiveSet(game'.particles)

C9_LethalHit == [][C9_LethalStep]_vars

\* C9 witness: a lethal hit is due with a free explosion slot and at least
\* 8 free particle slots.
C9_Witness ==
    /\ Lethal
    /\ FreeCount(game.explosions) >= 1
    /\ FreeCount(game.particles) >= 8

\* C10: a spawn request into a pool with no inactive slot changes nothing:
\* for the five single-slot requests in whatever state they are made, with
\* arguments the code passes, and for spawnExplosion where the first
\* collision loop is about to call it for a lethal hit.
C10_FullPoolDropsRequest ==
    /\ Full(game.enemies) =>
          spawnEnemy(game, "ENEMY_BASIC", Vec2(P(30), -P(20)), Vec2(0, 15), now)
              = game
    /\ Full(game.playerBullets) =>
          spawnPlayerBullet(game, game.player.pos, Vec2(0, -P(8)), now) = game
    /\ Full(game.enemyBullets) =>
          spawnEnemyBullet(game, game.player.pos, Vec2(0, P(3)), now) = game
    /\ Full(game.powerups) =>
          spawnPowerup(game, game.player.pos, "POWERUP_WEAPON", now) = game
    /\ Full(game.particles) =>
          spawnParticle(game, game.player.pos, ParticleVel(0), now) = game
    /\ (Lethal /\ Full(game.explosions)) =>
          spawnExplosion(game, game.enemies[HitEnemy(game, ci)].pos,
                         game.enemies[HitEnemy(game, ci)].width, now) = game

\* The clock environment: its third frame, at ClockT, kills an enemy, and
\* the explosion of that kill takes slot 1 of the explosion pool.
ClockT == 3 * 2001
Blast == game.explosions[1]
\* Time since ClockT at a frame boundary of the clock environment.
SinceBlast == now - ClockT
AtClockTick == env.name = "clock" /\ pc = "loop" /\ frames >= 3

\* C11 as stated: the explosion spawned at T is active at every tick before
\* T + 300 ms and inactive at every tick from T + 300 ms on.
C11_ExplosionLasts300AsStated ==
    AtClockTick => (Blast.active <=> SinceBlast < 300)

\* C11 amended: the explosion spawned at T is active at every tick up to
\* T + 300 ms; a tick advances its frame exactly when more than 50 ms have
\* passed since the last advance (or the spawn); it is deactivated by its
\* 6th advance, which ticks 33 ms apart make at T + 396 ms and ticks 51 ms
\* apart at T + 306 ms.
C11_ExplosionState ==
    /\ (AtClockTick /\ frames = 3) =>
           /\ Blast.active
           /\ Blast.animFrame = 0
           /\ Blast.lastAnimTime = ClockT
    /\ AtClockTick =>
           /\ SinceBlast <= 300 => Blast.active
           /\ Blast.active <=> Blast.animFrame < 6
           /\ SinceBlast = 33 * (frames - 3) =>
                  (Blast.active <=> SinceBlast < 396)
           /\ SinceBlast = 51 * (frames - 3) =>
                  (Blast.active <=> SinceBlast < 306)

C11_ExplosionStep ==
    (IsFrame /\ game.state = "PLAYING") =>
        \A i \in ActiveSet(game.explosions) :
            game'.explosions[i].animFrame =
                game.explosions[i].animFrame
                  + (IF now' - game.explosions[i].lastAnimTime > 50
                     THEN 1 ELSE 0)

C11_ExplosionLifetime == []C11_ExplosionState /\ [][C11_ExplosionStep]_vars

\* C11 witness: 330 ms after its spawn the explosion is still active.
C11_Witness == AtClockTick /\ SinceBlast = 330 /\ Blast.active

\* C12: a Playing tick moves every bullet that was active by its velocity
\* and deactivates a player bullet exactly when its moved y is < -10 and an
\* enemy bullet exactly when its moved y is > SCREEN_HEIGHT + 10; so no
\* active player bullet has y < -10 and no active enemy bullet has
\* y > SCREEN_HEIGHT + 10.
C12_CullState ==
    /\ \A i \in ActiveSet(game.playerBullets) :
           game.playerBullets[i].pos.y >= -P(10)
    /\ \A i \in ActiveSet(game.enemyBullets) :
           game.enemyBullets[i].pos.y <= P(SCREEN_HEIGHT + 10)

C12_CullStep ==
    (IsFrame /\ game.state = "PLAYING") =>
        /\ \A i \in ActiveSet(game.playerBullets) :
               LET b == game.playerBullets[i]
               IN  /\ game'.playerBullets[i].pos = VecAdd(b.pos, b.vel)
                   /\ game'.playerBullets[i].active
                          <=> ~(b.pos.y + b.vel.y < -P(10))
        /\ \A i \in ActiveSet(game.enemyBullets) :
               LET b == game.enemyBullets[i]
               IN  /\ game'.enemyBullets[i].pos = VecAdd(b.pos, b.vel)
                   /\ game'.enemyBullets[i].active
                          <=> ~(b.pos.y + b.vel.y > P(SCREEN_HEIGHT + 10))

C12_CullingExact == []C12_CullState /\ [][C12_CullStep]_vars

\* C12 witness: an enemy bullet sits exactly at SCREEN_HEIGHT + 10, still
\* active, and a player bullet has been culled beyond -10.
C12_Witness ==
    /\ \E i \in ActiveSet(game.enemyBullets) :
           game.enemyBullets[i].pos.y = P(SCREEN_HEIGHT + 10)
    /\ \E i \in DOMAIN game.playerBullets :
           /\ ~game.playerBullets[i].active
           /\ game.playerBullets[i].type = "BULLET_PLAYER"
           /\ game.playerBullets[i].pos.y < -P(10)

\* C13: the game-over test runs once per Playing frame, after the four
\* collision loops: the loops leave state alone whatever lives becomes, the
\* step that ends the frame sets GAME_OVER exactly when lives <= 0 then, and
\* between frames PLAYING implies lives >= 1.
Rescue ==
    \E i \in ActiveSet(game.powerups) :
        /\ game.powerups[i].type = "POWERUP_HEALTH"
        /\ intersects(getRect(game.powerups[i]), getRect(game.player))

C13_BoundaryState ==
    (pc = "loop" /\ game.state = "PLAYING") => game.lives >= 1

C13_DecisionStep ==
    /\ pc \in {"bulletsVsEnemies", "enemyBulletsVsPlayer", "enemiesVsPlayer"}
          => game'.state = game.state
    /\ pc = "powerupsVsPlayer" =>
          /\ game.state = "PLAYING"
          /\ game'.state = "GAME_OVER" <=> game'.lives <= 0
          /\ (game.lives = 0 /\ Rescue) =>
                 (game'.lives >= 1 /\ game'.state = "PLAYING")

C13_GameOverAtEndOfTick ==
    []C13_BoundaryState /\ [][C13_DecisionStep]_vars

\* C13 witness: the collision loops have taken lives to 0 and a health
\* powerup is about to be picked up in the same frame.
C13_Witness == pc = "powerupsVsPlayer" /\ game.lives = 0 /\ Rescue

\* C14: score is a non-negative multiple of 100; startGame sets it to 0, a
\* pass of the first collision loop adds exactly 100 when it kills an enemy
\* and nothing otherwise, and no other step (enemy contact included)
\* changes it.
C14_ScoreState == game.score >= 0 /\ game.score % 100 = 0

C14_ScoreStep ==
    IF IsFrame /\ game.state # "PLAYING" /\ input'.isTouching
    THEN game'.score = 0
    ELSE IF pc = "bulletsVsEnemies"
    THEN game'.score = game.score + (IF Lethal THEN 100 ELSE 0)
    ELSE game'.score = game.score

C14_ScoreMonotone == []C14_ScoreState /\ [][C14_ScoreStep]_vars

\* C14 witness: with points on the board, an enemy is about to be destroyed
\* by contact with the player.
C14_Witness ==
    /\ pc = "enemiesVsPlayer"
    /\ game.score >= 100
    /\ \E i \in ActiveSet(game.enemies) :
           intersects(getRect(game.enemies[i]), getRect(game.player))

\* The enemy slots a Playing frame fills: inactive before the frame, active
\* when its collision phases start.
Injected == Activated(game.enemies, game'.enemies)

\* C15 as stated: an enemy injected by the timed spawn of a Playing frame is
\* not moved in that frame and is at its spawn position y = -20 when the
\* frame's collisions are resolved.
C15_SpawnStepAsStated ==
    (IsFrame /\ game.state = "PLAYING") =>
        \A i \in Injected : game'.enemies[i].pos.y = -P(20)

C15_SpawnAfterMovementAsStated == [][C15_SpawnStepAsStated]_vars

\* C15: the timed spawn of a Playing frame comes before updateEnemies and
\* before the collisions.  When the spawn is due, lastEnemySpawn becomes the
\* frame's time and, if an enemy slot is free, the first free slot is filled;
\* that enemy is moved once by updateEnemies in the same frame, so that at
\* collision time it is at y = -20 + vel.y (never at -20), and it may
\* already have fired.  When the spawn is not due no enemy appears.
C15_SpawnStep ==
    (IsFrame /\ game.state = "PLAYING") =>
        IF SpawnDue(game, now')
        THEN /\ game'.lastEnemySpawn = now'
             /\ Injected = (IF Full(game.enemies) THEN {}
                            ELSE {FirstFree(game.enemies)})
             /\ \A i \in Injected :
                   /\ game'.enemies[i].vel.y \in {15, 30}
                   /\ game'.enemies[i].pos.y = -P(20) + game'.enemies[i].vel.y
                   /\ game'.enemies[i].pos.y # -P(20)
        ELSE /\ game'.lastEnemySpawn = game.lastEnemySpawn
             /\ Injected = {}

C15_SpawnBeforeEnemyUpdate == [][C15_SpawnStep]_vars

\* C15 witness: at the start of the collisions of a frame whose spawn filled
\* a slot, the new enemy has been moved and its shot of this frame is in
\* flight below it.
C15_Witness ==
    /\ pc # "loop"
    /\ game.lastEnemySpawn = now
    /\ \E i \in ActiveSet(game.enemies) :
          /\ game.enemies[i].pos.y = -P(20) + game.enemies[i].vel.y
          /\ \E b \in ActiveSet(game.enemyBullets) :
                game.enemyBullets[b].pos.y = game.enemies[i].pos.y + P(3)

\* Reference predicates for two boxes with integer corners, by points.  The
\* interiors of the boxes share a point iff they share one with half-integer
\* coordinates (p and q are twice the coordinates of the point); the closed
\* boxes share a point iff they share one with integer coordinates.
InteriorsMeet(a, r) ==
    \E p \in 0..(2 * (RectSpan + RectSize) + 2),
       q \in 0..(2 * (RectSpan + RectSize) + 2) :
        /\ 2 * a.x < p /\ p < 2 * (a.x + a.w)
        /\ 2 * r.x < p /\ p < 2 * (r.x + r.w)
        /\ 2 * a.y < q /\ q < 2 * (a.y + a.h)
        /\ 2 * r.y < q /\ q < 2 * (r.y + r.h)

BoxesMeet(a, r) ==
    \E p \in 0..(RectSpan + RectSize + 1),
       q \in 0..(RectSpan + RectSize + 1) :
        /\ a.x <= p /\ p <= a.x + a.w
        /\ r.x <= p /\ p <= r.x + r.w
        /\ a.y <= q /\ q <= a.y + a.h
        /\ r.y <= q /\ q <= r.y + r.h

\* The boxes meet but only along an edge or at a corner.
OnlyTouch(a, r) == BoxesMeet(a, r) /\ ~InteriorsMeet(a, r)

\* C16 as stated: intersects is true exactly when the x-intervals and the
\* y-intervals both overlap, boxes that only touch counting as overlapping.
C16_IntersectsAsStated ==
    probe.called => (probe.result <=> BoxesMeet(probe.a, probe.r))

\* C16: for boxes of positive width and height, intersects is true exactly
\* when the interiors of the boxes share a point, i.e. the x-intervals and
\* the y-intervals both overlap in more than an end point; boxes that only
\* touch along an edge or at a corner do not intersect.
C16_IntersectsStrict ==
    probe.called =>
        /\ probe.result <=> InteriorsMeet(probe.a, probe.r)
        /\ OnlyTouch(probe.a, probe.r) => ~probe.result

\* C16 witness: a call on two boxes that share a vertical edge (the right
\* side of a is the left side of r) over a common stretch of y.
C16_Witness ==
    /\ probe.called
    /\ probe.a.x + probe.a.w = probe.r.x
    /\ probe.a.y < probe.r.y + probe.r.h
    /\ probe.r.y < probe.a.y + probe.a.h
    /\ ~probe.result

\* The player-bullet slots a step fills.
Fired == Activated(game.playerBullets, game'.playerBullets)

\* C17: lastPlayerShot is the time of the run's latest honored fire request
\* (0 before the first).  A Playing frame honors a request, i.e. sets
\* lastPlayerShot to the frame's time and spawns the bullets its free slots
\* allow, only with fire pressed and more than 150 ms after lastPlayerShot;
\* with fire pressed at most 150 ms after it, no player bullet is spawned
\* and lastPlayerShot is unchanged.  Within a run no other step changes
\* lastPlayerShot or spawns a player bullet.
C17_FireState == game.lastPlayerShot <= now

C17_FireStep ==
    IF IsFrame /\ game.state = "PLAYING"
    THEN IF input'.firePressed /\ now' - game.lastPlayerShot > 150
         THEN /\ game'.lastPlayerShot = now'
              /\ Cardinality(Fired) =
                     Min(FreeCount(game.playerBullets),
                         IF game.playerWeaponLevel = 1 THEN 1
                         ELSE game.playerWeaponLevel)
         ELSE /\ game'.lastPlayerShot = game.lastPlayerShot
              /\ Fired = {}
    ELSE /\ Fired = {}
         /\ \/ game'.lastPlayerShot = game.lastPlayerShot
            \/ IsFrame /\ input'.isTouching /\ game'.lastPlayerShot = 0

C17_FireRateLimited == []C17_FireState /\ [][C17_FireStep]_vars

\* C17 witness: a Playing frame with fire pressed that came at most 150 ms
\* after the last shot and so was refused.
C17_Witness ==
    /\ pc # "loop"
    /\ input.firePressed
    /\ game.lastPlayerShot > 0
    /\ now - game.lastPlayerShot >= 1
    /\ now - game.lastPlayerShot <= 150

\* C18: the spawner never produces a tank.  Every draw of random(0, 100)
\* above 70 gives ENEMY_FAST with speed 3.0 and every other draw ENEMY_BASIC
\* with speed 1.5; every active enemy is of one of these two types with its
\* type's speed, size (16 or 20) and at most its type's health (5 or 10).
C18_NoTank ==
    /\ \A typeDraw \in 0..99 :
          /\ SpawnType(typeDraw) =
                (IF typeDraw > 70 THEN "ENEMY_FAST" ELSE "ENEMY_BASIC")
          /\ SpawnSpeed(typeDraw) = (IF typeDraw > 70 THEN P(3) ELSE 15)
    /\ \A i \in ActiveSet(game.enemies) :
          LET e == game.enemies[i]
          IN  /\ e.type \in {"ENEMY_BASIC", "ENEMY_FAST"}
              /\ e.type # "ENEMY_TANK"
              /\ e.health # 30
              /\ e.width # P(28) /\ e.height # P(28)
              /\ e.type = "ENEMY_FAST" =>
                    /\ e.vel.y = P(3)
                    /\ e.width = P(16) /\ e.height = P(16)
                    /\ e.health <= 5
              /\ e.type = "ENEMY_BASIC" =>
                    /\ e.vel.y = 15
                    /\ e.width = P(20) /\ e.height = P(20)
                    /\ e.health <= 10

\* C18 witness: where every draw for the type is above 90, an enemy is in
\* play, and it is a fast one.
C18_Witness ==
    /\ \A typeDraw \in env.types : typeDraw > 90
    /\ \E i \in ActiveSet(game.enemies) :
          game.enemies[i].type = "ENEMY_FAST"

\* The active enemy bullets whose box intersects the player's.
BulletHits ==
    {i \in ActiveSet(game.enemyBullets) :
        intersects(getRect(game.enemyBullets[i]), getRect(game.player))}

\* C19: the enemy-bullets-vs-player phase deactivates every active enemy
\* bullet that intersects the player and takes one life for each of them
\* (k hits cost k lives); every other bullet slot, and the player, are
\* left as they were.
C19_BulletStep ==
    pc = "enemyBulletsVsPlayer" =>
        /\ game'.lives = game.lives - Cardinality(BulletHits)
        /\ \A i \in DOMAIN game.enemyBullets :
              IF i \in BulletHits
              THEN game'.enemyBullets[i] = deactivate(game.enemyBullets[i])
              ELSE game'.enemyBullets[i] = game.enemyBullets[i]
        /\ game'.player = game.player
        /\ game'.score = game.score

C19_EachBulletCostsALife == [][C19_BulletStep]_vars

\* C19 witness: the phase is about to run with two bullets on the player at
\* once and a third one in flight elsewhere.
C19_Witness ==
    /\ pc = "enemyBulletsVsPlayer"
    /\ Cardinality(BulletHits) >= 2
    /\ ActiveSet(game.enemyBullets) \ BulletHits # {}

\* The number of updateParticles calls since the kill of time ClockT, whose
\* particles are the only ones of the "clock" run.
SinceKill == frames - 3

\* C20: a particle lives exactly 10 Playing frames.  An active particle has
\* 1 <= health <= 10; a Playing frame takes 1 from the health of each active
\* particle and deactivates it exactly when that leaves 0; a collision step
\* leaves the active particles alone and starts new ones at health 10.  In
\* the "clock" run the 8 particles of the kill at ClockT have health
\* 10 - k after k frames and are gone from the 10th on.  A particle that is
\* active with ten more frames of the run to come is deactivated, unless the
\* game leaves PLAYING first.
C20_ParticleState ==
    /\ \A i \in ActiveSet(game.particles) :
          game.particles[i].health >= 1 /\ game.particles[i].health <= 10
    /\ AtClockTick =>
          \A i \in 1..8 :
             /\ game.particles[i].active <=> SinceKill < 10
             /\ game.particles[i].active =>
                   game.particles[i].health = 10 - SinceKill

C20_ParticleStep ==
    \A i \in ActiveSet(game.particles) :
        IF IsFrame /\ game.state = "PLAYING"
        THEN /\ game'.particles[i].health = game.particles[i].health - 1
             /\ game'.particles[i].active <=> game.particles[i].health > 1
        ELSE IF IsFrame
        THEN game'.particles[i] = game.particles[i] \/ input'.isTouching
        ELSE game'.particles[i] = game.particles[i]

C20_ParticleSpawnStep ==
    \A i \in Activated(game.particles, game'.particles) :
        ~IsFrame /\ game'.particles[i].health = 10

C20_ParticlesLive10Ticks ==
    /\ []C20_ParticleState
    /\ [][C20_ParticleStep /\ C20_ParticleSpawnStep]_vars
    /\ \A i \in 1..MAX_PARTICLES :
          (/\ game.particles[i].active
           /\ game.state = "PLAYING"
           /\ frames + 10 <= env.frames)
             ~> (~game.particles[i].active \/ game.state # "PLAYING")

\* C20 witness: a particle in its last frame, before the 10th update.
C20_Witness ==
    /\ AtClockTick
    /\ SinceKill = 9
    /\ game.particles[1].active
    /\ game.particles[1].health = 1

\* The type, width, height and health a spawn function gives a new entity.
Kinds ==
    {<<"ENEMY_BASIC", P(20), P(20), 10>>, <<"ENEMY_FAST", P(16), P(16), 5>>,
     <<"BULLET_PLAYER", P(4), P(8), 1>>, <<"BULLET_ENEMY", P(4), P(8), 1>>,
     <<"POWERUP_WEAPON", P(16), P(16), 1>>,
     <<"POWERUP_HEALTH", P(16), P(16), 1>>,
     <<"PARTICLE", P(2), P(2), 10>>}
       \cup {<<"EXPLOSION", size, size, 6>> : size \in {P(16), P(20), P(24)}}

\* An entity to spawn into any pool, for Claim taken by itself.
Sample == EntityInit("PARTICLE", Vec2(0, 0), Vec2(0, 0), P(2), P(2), 10, now)

\* C21, the scan by itself: for each pool as it is in a reachable state, a
\* spawn changes exactly the lowest-index inactive slot, to the initialised
\* entity, and changes nothing when every slot is active.
C21_AllocState ==
    \A k \in 1..6 :
        LET old == Pools[k]
            new == Claim(old, Sample)
        IN  /\ DOMAIN new = DOMAIN old
            /\ IF \A i \in DOMAIN old : old[i].active
               THEN new = old
               ELSE \E i \in DOMAIN old :
                      /\ ~old[i].active
                      /\ \A j \in DOMAIN old : j < i => old[j].active
                      /\ new[i] = Sample
                      /\ new[i].active /\ new[i].animFrame = 0
                      /\ \A j \in DOMAIN old : j # i => new[j] = old[j]

\* C21, the scan in the game: in every step and every pool, the slots that
\* become active are the lowest-index inactive ones and are initialised
\* (animFrame 0, the time of the frame, the kind's size and health); an
\* inactive slot that is not taken keeps all its fields; an active slot is
\* not taken: it keeps its type and size and goes on from its own position
\* (outside Playing frames only its active flag and health can change).
C21_AllocStep ==
    \A k \in 1..6 :
        LET old == Pools[k]
            new == Pools'[k]
            act == Activated(old, new)
        IN  /\ \A i \in act :
                  /\ \A j \in DOMAIN old : j < i => old[j].active \/ j \in act
                  /\ new[i].animFrame = 0
                  /\ new[i].lastAnimTime = now'
                  /\ <<new[i].type, new[i].width, new[i].height,
                        new[i].health>> \in Kinds
            /\ \A i \in DOMAIN old \ act :
                  IF ~old[i].active THEN new[i] = old[i]
                  ELSE /\ new[i].type = old[i].type
                       /\ new[i].width = old[i].width
                       /\ new[i].height = old[i].height
                       /\ new[i].vel = old[i].vel
                       /\ IF IsFrame /\ game.state = "PLAYING"
                          THEN new[i].pos.y = old[i].pos.y + old[i].vel.y
                          ELSE IF IsFrame
                          THEN [new[i] EXCEPT !.active = TRUE] = old[i]
                          ELSE [new[i] EXCEPT !.active = TRUE,
                                              !.health = old[i].health]
                                  = old[i]

C21_SlotAllocation == []C21_AllocState /\ [][C21_AllocStep]_vars

\* C21 witness: a slot that was freed has been taken again: a player bullet
\* of this frame sits below an older bullet that is still in flight.
C21_Witness ==
    \E i, j \in ActiveSet(game.playerBullets) :
        /\ i < j
        /\ game.playerBullets[i].lastAnimTime = now
        /\ game.playerBullets[j].lastAnimTime < now

\* C22: lastEnemySpawn is the time of the run's latest spawn attempt (0
\* before the first).  A Playing frame makes an attempt only when more than
\* 2000 ms have passed since lastEnemySpawn, and then makes one: it sets
\* lastEnemySpawn to the frame's time whether or not a slot is free and
\* fills one slot if one is free, none if the pool is full.  A frame at
\* most 2000 ms after lastEnemySpawn adds no enemy, a freed slot or not, and
\* no other step of a run adds an enemy or changes lastEnemySpawn.
C22_SpawnState == game.lastEnemySpawn <= now

C22_SpawnTimerStep ==
    IF IsFrame /\ game.state = "PLAYING"
    THEN IF now' - game.lastEnemySpawn > 2000
         THEN /\ game'.lastEnemySpawn = now'
              /\ Cardinality(Injected) = (IF Full(game.enemies) THEN 0 ELSE 1)
         ELSE /\ game'.lastEnemySpawn = game.lastEnemySpawn
              /\ Injected = {}
    ELSE /\ Injected = {}
         /\ \/ game'.lastEnemySpawn = game.lastEnemySpawn
            \/ IsFrame /\ input'.isTouching /\ game'.lastEnemySpawn = 0

C22_SpawnCooldown == []C22_SpawnState /\ [][C22_SpawnTimerStep]_vars

\* C22 witness: the collisions of a frame whose attempt found the pool
\* full: the timer was set in this frame and every enemy is an older one.
C22_Witness ==
    /\ pc # "loop"
    /\ game.lastEnemySpawn = now
    /\ \A i \in DOMAIN game.enemies :
          game.enemies[i].active /\ game.enemies[i].lastAnimTime < now

\* C23: every player-bullet hit on an enemy is lethal.  An active enemy has
\* the full health of its type, 5 (fast) or 10 (basic); a pass of the first
\* collision loop whose bullet hits an enemy leaves that enemy with health
\* <= 0 and inactive, so the branch for a surviving enemy is never taken.
C23_HealthState ==
    \A i \in ActiveSet(game.enemies) :
        /\ game.enemies[i].health \in {5, 10}
        /\ game.enemies[i].health =
              (IF game.enemies[i].type = "ENEMY_FAST" THEN 5 ELSE 10)

C23_HitStep ==
    (pc = "bulletsVsEnemies" /\ Hits(game, ci) # {}) =>
        /\ Lethal
        /\ game'.enemies[HitEnemy(game, ci)].health
              = game.enemies[HitEnemy(game, ci)].health - 10
        /\ game'.enemies[HitEnemy(game, ci)].health <= 0
        /\ ~game'.enemies[HitEnemy(game, ci)].active

C23_EveryHitLethal == []C23_HealthState /\ [][C23_HitStep]_vars

\* C23 witness: a bullet is about to hit a basic enemy, whose health of 10
\* the hit brings to exactly 0.
C23_Witness ==
    /\ pc = "bulletsVsEnemies"
    /\ \E j \in Hits(game, ci) :
          /\ \A k \in Hits(game, ci) : j <= k
          /\ game.enemies[j].type = "ENEMY_BASIC"
          /\ game.enemies[j].health = 10

\* The enemy slots a step turns from active to inactive.
Gone == {i \in ActiveSet(game.enemies) : ~game'.enemies[i].active}

\* The active enemies whose box intersects the player's.
Contacts ==
    {i \in ActiveSet(game.enemies) :
        intersects(getRect(game.enemies[i]), getRect(game.player))}

\* C24: an enemy ends in exactly one way, and only an active one can.  In a
\* pass of the first collision loop at most one enemy ends, the one the
\* bullet hits, for 100 points and no life; the third loop ends exactly the
\* active enemies in contact with the player, each for one life and no
\* points; a Playing frame ends only enemies that have left the screen, for
\* neither; the other two loops end none.  An enemy slot that is inactive
\* when a collision loop runs is left as it is and has no effect, whatever
\* box its old fields describe; so an enemy shot in a frame costs no life
\* in that frame.
C24_OutcomeStep ==
    /\ \A i \in DOMAIN game.enemies :
          (pc # "loop" /\ ~game.enemies[i].active) =>
              game'.enemies[i] = game.enemies[i]
    /\ pc = "bulletsVsEnemies" =>
          /\ Gone = (IF Hits(game, ci) = {} THEN {} ELSE {HitEnemy(game, ci)})
          /\ game'.score = game.score + 100 * Cardinality(Gone)
          /\ game'.lives = game.lives
    /\ pc = "enemiesVsPlayer" =>
          /\ Gone = Contacts
          /\ game'.lives = game.lives - Cardinality(Gone)
          /\ game'.score = game.score
    /\ pc \in {"enemyBulletsVsPlayer", "powerupsVsPlayer"} => Gone = {}
    /\ (IsFrame /\ game.state = "PLAYING") =>
          /\ \A i \in Gone : game'.enemies[i].pos.y > P(SCREEN_HEIGHT + 20)
          /\ game'.score = game.score
          /\ game'.lives = game.lives

C24_OneOutcomePerEnemy == [][C24_OutcomeStep]_vars

\* C24 witness: the third loop is about to run over an enemy that a bullet
\* destroyed in this frame (its particles are new and at its position) while
\* its box lies on the player's.
C24_Witness ==
    /\ pc = "enemiesVsPlayer"
    /\ \E i \in DOMAIN game.enemies :
          /\ ~game.enemies[i].active
          /\ game.enemies[i].health <= 0
          /\ intersects(getRect(game.enemies[i]), getRect(game.player))
          /\ \E p \in ActiveSet(game.particles) :
                /\ game.particles[p].lastAnimTime = now
                /\ game.particles[p].pos = game.enemies[i].pos

\* The bullets the frame's fire request asks for.
Volley == IF game.playerWeaponLevel = 1 THEN 1 ELSE game.playerWeaponLevel

\* C25: with frames 33 ms apart, player fire is never dropped.  At every
\* frame boundary at most 27 of the 30 player-bullet slots are active, so a
\* request finds at least 3 inactive ones; a frame that honors a request
\* spawns every bullet of the volley.
C25_FireState ==
    /\ Len(game.playerBullets) = FULL_PLAYER_BULLETS
    /\ ActiveCount(game.playerBullets) <= FULL_PLAYER_BULLETS - 3
    /\ FreeCount(game.playerBullets) >= 3

C25_FireStep ==
    FireDue(game, input', now') =>
        /\ FreeCount(game.playerBullets) >= 3
        /\ game'.lastPlayerShot = now'
        /\ \E new \in SUBSET (DOMAIN game.playerBullets) :
              /\ Cardinality(new) = Volley
              /\ \A i \in new :
                    /\ ~game.playerBullets[i].active
                    /\ game'.playerBullets[i].active
                    /\ game'.playerBullets[i].lastAnimTime = now'

C25_FireNeverDropped == []C25_FireState /\ [][C25_FireStep]_vars

\* C25 witness: the most bullets there can be: a level-3 volley has just
\* been fired from the lowest position with seven volleys still in flight.
C25_Witness ==
    /\ game.playerWeaponLevel = 3
    /\ game.lastPlayerShot = now
    /\ game.player.pos.y = P(FULL_SCREEN_HEIGHT - 12 - 20)
    /\ ActiveCount(game.playerBullets) = 24

====
